---- MODULE Spec2Model ----
(***************************************************************************)
(* RelationalEngine (src/core/relational.py): table catalog, relationship  *)
(* list, build_dag (Kahn's algorithm) and generate_all (per-table          *)
(* generation with foreign-key pools).                                     *)
(*                                                                         *)
(* Python dicts keep insertion order, and build_dag reads that order, so a *)
(* dict is modelled as a sequence of <<key, value>> pairs.                 *)
(*                                                                         *)
(* A polars DataFrame is modelled by what relational.py reads from it: its *)
(* height, its column names in order, and per column the set of values     *)
(* that occur in it (df.columns, len(df), df[col].unique()).               *)
(*                                                                         *)
(* render_relational_tab (src/app/ui_relational.py): the multi-table click *)
(* handler that runs the engine and hands the results to the sink.         *)
(*                                                                         *)
(* ForgeEngine.generate_records (src/core/generator.py): single-table      *)
(* generation by Faker providers or from the records of an LLM engine.     *)
(***************************************************************************)
EXTENDS Integers, Sequences, FiniteSets, TLC

VARIABLES
    tables,         \* self.tables: ordered dict  name -> schema
    relationships,  \* self.relationships: list of <<parent, pcol, child, ccol>>
    pc,             \* "idle" | "dag" | "gen" | "done" | "error"
    caller,         \* public method running: "none" | "build_dag" | "generate_all"
    in_degree,      \* build_dag local: ordered dict  name -> int
    queue,          \* build_dag local: deque of names
    order,          \* build_dag local / generate_all local: list of names
    counts,         \* generate_all argument: function  name -> int (only counts.get reads it)
    idx,            \* generate_all: 1-based position of the for loop in order
    results,        \* generate_all local: ordered dict  name -> DataFrame
    fk_pools,       \* generate_all local: ordered dict  <<table, col>> -> set of values
    err,            \* the exception that ended the call (kind "none" if none)
    fallbacks,      \* history: ordered dict <<table, col>> -> rows filled by the synthesizer fallback
    ui,             \* render_relational_tab, the Generate All Tables click: "idle" | "running" | "success" | "error" | "crashed"
    pushed,         \* render_relational_tab: table names handed to sink.push by the click, in order
    forge,          \* ForgeEngine.generate_records: the call's arguments and what it returned
    rules_call,     \* LLMLogicEngine.apply_rules: the call's arguments, locals and what it returned
    sink,           \* LocalSink._write_batches: the call's arguments, loop position and files written
    tt,             \* TimeTravelEngine._generate_periods: the call's arguments and locals
    prev            \* history: the catalog, order and outcome of the engine call before this one

vars == <<tables, relationships, pc, caller, in_degree, queue, order, counts,
          idx, results, fk_pools, err, fallbacks, ui, pushed, forge,
          rules_call, sink, tt, prev>>

(* what the RelationalEngine never touches *)
libVars == <<rules_call, sink, tt, prev>>
appVars == <<ui, pushed, forge, libVars>>

----------------------------------------------------------------------------
(* Bounds of the model: relationships declared before a generate_all run,
   before a direct build_dag run, and the largest requested row count; the
   same for the runs with partial counts and for the UI flow; the largest
   count and the longest record list of a generate_records call *)

MaxRels == 2
MaxDagRels == 3
MaxCount == 1
MaxPoolRels == 2
MaxPoolCount == 2
MaxUiRels == 2
MaxUiCount == 1
MaxForgeCount == 2
MaxRecords == 2
MaxCallRels == 2
MaxRules == 2
MaxRuleRows == 2
MaxRows == 7
MaxPerFile == 3

(* Inputs: table names (a name used in a relationship and never registered
   is an unregistered table), and the schema tables are registered with *)

Names == {"A", "B", "C"}
TableSchema == << <<"id", "Int64">>, <<"fk", "String">> >>
Schemas == {TableSchema}

(* counts.get(table_name, 100) *)
DefaultCount == 100

----------------------------------------------------------------------------
(* Ordered dicts *)

Keys(d) == [i \in 1..Len(d) |-> d[i][1]]
KeySet(d) == {d[i][1] : i \in 1..Len(d)}
Has(d, k) == k \in KeySet(d)
Get(d, k) == d[CHOOSE i \in 1..Len(d) : d[i][1] = k][2]
GetOr(d, k, dflt) == IF Has(d, k) THEN Get(d, k) ELSE dflt
Put(d, k, v) ==
    IF Has(d, k)
    THEN [i \in 1..Len(d) |-> IF d[i][1] = k THEN <<k, v>> ELSE d[i]]
    ELSE Append(d, <<k, v>>)

SeqSet(s) == {s[i] : i \in 1..Len(s)}

NoErr == [kind |-> "none", remaining |-> {}, key |-> "none"]

(* no generate_records call is under way *)
ForgeIdle == [phase |-> "idle"]

(* no apply_rules, _write_batches or _generate_periods call is under way *)
RulesIdle == [phase |-> "idle"]
SinkIdle == [phase |-> "idle"]
PeriodsIdle == [phase |-> "idle"]

(* no engine call has ended yet *)
NoPrev == [valid |-> FALSE]

----------------------------------------------------------------------------
(* build_dag *)

(* Graph keeping a child once however many relationships name it *)
GraphDistinct(node) ==
    LET F[i \in 0..Len(relationships)] ==
            IF i = 0 THEN <<>>
            ELSE IF /\ relationships[i][1] = node
                    /\ relationships[i][3] \notin {F[i - 1][k] : k \in 1..Len(F[i - 1])}
                 THEN Append(F[i - 1], relationships[i][3])
                 ELSE F[i - 1]
    IN F[Len(relationships)]

(* graph[node]: the children appended for node, in relationship order *)
Graph(node) ==
    LET F[i \in 0..Len(relationships)] ==
            IF i = 0 THEN <<>>
            ELSE IF relationships[i][1] = node
                 THEN Append(F[i - 1], relationships[i][3])
                 ELSE F[i - 1]
    IN F[Len(relationships)]

(* in_degree after lines 46-50 *)
InitialInDegree ==
    LET zero == [i \in 1..Len(tables) |-> <<tables[i][1], 0>>]
        F[i \in 0..Len(relationships)] ==
            IF i = 0 THEN zero
            ELSE Put(F[i - 1], relationships[i][3],
                     GetOr(F[i - 1], relationships[i][3], 0) + 1)
    IN F[Len(relationships)]

(* deque([t for t, d in in_degree.items() if d == 0]) *)
ZeroInDegree(deg) ==
    LET z == SelectSeq(deg, LAMBDA e : e[2] = 0)
    IN [i \in 1..Len(z) |-> z[i][1]]

(* Relax without the test of line 61: the child is enqueued at every decrement *)
RelaxAlwaysEnqueue(children, deg, q) ==
    LET F[i \in 0..Len(children)] ==
            IF i = 0 THEN <<deg, q>>
            ELSE <<Put(F[i - 1][1], children[i], Get(F[i - 1][1], children[i]) - 1),
                   Append(F[i - 1][2], children[i])>>
    IN F[Len(children)]

(* the for loop of lines 59-62 over children, from <<in_degree, queue>> *)
Relax(children, deg, q) ==
    LET F[i \in 0..Len(children)] ==
            IF i = 0 THEN <<deg, q>>
            ELSE LET d == Put(F[i - 1][1], children[i], Get(F[i - 1][1], children[i]) - 1)
                 IN <<d, IF Get(d, children[i]) = 0
                         THEN Append(F[i - 1][2], children[i])
                         ELSE F[i - 1][2]>>
    IN F[Len(children)]

Init ==
    /\ tables = <<>>
    /\ relationships = <<>>
    /\ pc = "idle"
    /\ caller = "none"
    /\ in_degree = <<>>
    /\ queue = <<>>
    /\ order = <<>>
    /\ counts = <<>>
    /\ idx = 0
    /\ results = <<>>
    /\ fk_pools = <<>>
    /\ err = NoErr
    /\ fallbacks = <<>>
    /\ ui = "idle"
    /\ pushed = <<>>
    /\ forge = ForgeIdle
    /\ rules_call = RulesIdle
    /\ sink = SinkIdle
    /\ tt = PeriodsIdle
    /\ prev = NoPrev

runVars == <<pc, caller, in_degree, queue, order, counts, idx, results, fk_pools, err, fallbacks>>

(* add_table(name, schema) *)
AddTable(name, schema) ==
    /\ pc = "idle"
    /\ tables' = Put(tables, name, schema)
    /\ UNCHANGED <<relationships, runVars, appVars>>

(* add_relationship(parent_table, parent_col, child_table, child_col) *)
AddRelationship(parent_table, parent_col, child_table, child_col, bound) ==
    /\ pc = "idle"
    /\ Len(relationships) < bound
    /\ relationships' = Append(relationships,
                               <<parent_table, parent_col, child_table, child_col>>)
    /\ UNCHANGED <<tables, runVars, appVars>>

(* the call is over: its result or exception is with the caller and its
   locals are gone; the engine keeps self.tables and self.relationships *)
ResetRun ==
    /\ pc' = "idle"
    /\ caller' = "none"
    /\ in_degree' = <<>>
    /\ queue' = <<>>
    /\ order' = <<>>
    /\ counts' = <<>>
    /\ idx' = 0
    /\ results' = <<>>
    /\ fk_pools' = <<>>
    /\ fallbacks' = <<>>
    /\ err' = NoErr

CallOver ==
    /\ pc \in {"done", "error"}
    /\ ResetRun
    /\ UNCHANGED <<appVars, tables, relationships>>

(* lines 45-54: the locals of build_dag at the head of the while loop *)
EnterBuildDag ==
    /\ in_degree' = InitialInDegree
    /\ queue' = ZeroInDegree(InitialInDegree)
    /\ order' = <<>>

(* build_dag() called directly *)
BuildDagCall ==
    /\ pc = "idle"
    /\ pc' = "dag"
    /\ caller' = "build_dag"
    /\ EnterBuildDag
    /\ counts' = <<>>
    /\ idx' = 0
    /\ results' = <<>>
    /\ fk_pools' = <<>>
    /\ fallbacks' = <<>>
    /\ err' = NoErr
    /\ UNCHANGED <<appVars, tables, relationships>>

(* KahnStep taking the placed table out of self.tables *)
KahnStepConsuming ==
    /\ pc = "dag"
    /\ queue # <<>>
    /\ LET node == Head(queue)
           r == Relax(Graph(node), in_degree, Tail(queue))
       IN /\ order' = Append(order, node)
          /\ in_degree' = r[1]
          /\ queue' = r[2]
          /\ tables' = SelectSeq(tables, LAMBDA e : e[1] # node)
    /\ UNCHANGED <<appVars, relationships, pc, caller, counts, idx, results,
                   fk_pools, err, fallbacks>>

(* KahnStep with queue.pop() for queue.popleft(): a LIFO frontier *)
KahnStepPop ==
    /\ pc = "dag"
    /\ queue # <<>>
    /\ LET node == queue[Len(queue)]
           r == Relax(Graph(node), in_degree, SubSeq(queue, 1, Len(queue) - 1))
       IN /\ order' = Append(order, node)
          /\ in_degree' = r[1]
          /\ queue' = r[2]
    /\ UNCHANGED <<appVars, tables, relationships, pc, caller, counts, idx, results,
                   fk_pools, err, fallbacks>>

(* one iteration of the while loop, lines 56-62 *)
KahnStep ==
    /\ pc = "dag"
    /\ queue # <<>>
    /\ LET node == Head(queue)
           r == Relax(Graph(node), in_degree, Tail(queue))
       IN /\ order' = Append(order, node)
          /\ in_degree' = r[1]
          /\ queue' = r[2]
    /\ UNCHANGED <<appVars, tables, relationships, pc, caller, counts, idx, results,
                   fk_pools, err, fallbacks>>

(* lines 64-72: the cycle check, then raise or return *)
CycleCheckFails == Len(order) # Len(tables)

(* Remaining without the unplaced tables that have no child *)
RemainingParentsOnly ==
    {t \in KeySet(tables) \ SeqSet(order) : Graph(t) # <<>>}

(* Remaining naming a single unplaced table *)
RemainingOne ==
    LET left == KeySet(tables) \ SeqSet(order)
    IN IF left = {} THEN {} ELSE {CHOOSE t \in left : TRUE}

Remaining == KeySet(tables) \ SeqSet(order)

BuildDagExit ==
    /\ pc = "dag"
    /\ queue = <<>>
    /\ IF CycleCheckFails
       THEN /\ pc' = "error"
            /\ err' = [kind |-> "ValueError", remaining |-> Remaining, key |-> "none"]
       ELSE /\ pc' = IF caller = "generate_all" THEN "gen" ELSE "done"
            /\ err' = NoErr
    /\ idx' = 1
    /\ UNCHANGED <<appVars, tables, relationships, caller, in_degree, queue, order, counts,
                   results, fk_pools, fallbacks>>

----------------------------------------------------------------------------
(* _generate_value and _generate_table *)

(* the values fake.random_int / fake.word can return, two of each kept *)
IntValues == {"i1", "i2"}
WordValues == {"w1"}
FloatValues == {"f1"}
DateValues == {"d1"}
Values == IntValues \cup WordValues \cup FloatValues \cup DateValues

(* "Int" in dtype, "Float" in dtype, "Date" in dtype *)
Contains(dtype, tag) ==
    \/ tag = "Int" /\ dtype \in {"Int64", "Int32"}
    \/ tag = "Float" /\ dtype \in {"Float64"}
    \/ tag = "Date" /\ dtype \in {"Date", "Datetime"}

(* _generate_value(dtype): the set of values one call can return *)
GenerateValue(dtype) ==
    IF Contains(dtype, "Int") THEN IntValues
    ELSE IF Contains(dtype, "Float") THEN FloatValues
    ELSE IF Contains(dtype, "Date") THEN DateValues
    ELSE WordValues

(* pl.DataFrame([]) : no rows and no columns *)
EmptyFrame == [height |-> 0, cols |-> <<>>]
Columns(df) == Keys(df.cols)
ColumnSet(df) == KeySet(df.cols)
(* df[col].unique().to_list() *)
Unique(df, col) == Get(df.cols, col)

(* FkSources keeping the first relationship declared on a child column *)
FkSourcesFirst(table_name) ==
    LET F[i \in 0..Len(relationships)] ==
            IF i = 0 THEN <<>>
            ELSE IF /\ relationships[i][3] = table_name
                    /\ ~Has(F[i - 1], relationships[i][4])
                 THEN Put(F[i - 1], relationships[i][4],
                          <<relationships[i][1], relationships[i][2]>>)
                 ELSE F[i - 1]
    IN F[Len(relationships)]

(* fk_sources of lines 83-86: child column -> <<parent, pcol>>, a later
   relationship on the same child column replacing an earlier one *)
FkSources(table_name) ==
    LET F[i \in 0..Len(relationships)] ==
            IF i = 0 THEN <<>>
            ELSE IF relationships[i][3] = table_name
                 THEN Put(F[i - 1], relationships[i][4],
                          <<relationships[i][1], relationships[i][2]>>)
                 ELSE F[i - 1]
    IN F[Len(relationships)]

(* CellSource without the else branch of lines 97-98: an empty pool leaves the cell null *)
CellSourceNoFallback(table_name, col, dtype, pools) ==
    LET fk_sources == FkSources(table_name)
    IN IF Has(fk_sources, col)
       THEN LET pool == GetOr(pools, Get(fk_sources, col), {})
            IN IF pool # {} THEN pool ELSE {"null"}
       ELSE GenerateValue(dtype)

(* lines 91-100: the set one cell of column col is drawn from *)
CellSource(table_name, col, dtype, pools) ==
    LET fk_sources == FkSources(table_name)
    IN IF Has(fk_sources, col)
       THEN LET pool == GetOr(pools, Get(fk_sources, col), {})
            IN IF pool # {} THEN pool ELSE GenerateValue(dtype)
       ELSE GenerateValue(dtype)

(* the sets of values count draws from src can leave in a column *)
ColumnValues(src, count) ==
    {S \in SUBSET src : S # {} /\ Cardinality(S) <= count}

(* lines 88-103: the DataFrames n rows over schema can make *)
Frames(table_name, schema, n, pools) ==
    LET F[i \in 0..Len(schema)] ==
            IF i = 0 THEN {<<>>}
            ELSE {Append(f, <<schema[i][1], S>>) :
                     f \in F[i - 1],
                     S \in ColumnValues(
                              CellSource(table_name, schema[i][1], schema[i][2], pools),
                              n)}
    IN {[height |-> n, cols |-> c] : c \in F[Len(schema)]}

(* GenerateTable with range(count + 1) *)
GenerateTableOneMore(table_name, schema, count, pools) ==
    Frames(table_name, schema, count + 1, pools)

(* _generate_table: every DataFrame the call can return; range(count) is
   empty for count <= 0 and pl.DataFrame([]) has no columns *)
GenerateTable(table_name, schema, count, pools) ==
    IF count <= 0 THEN {EmptyFrame}
    ELSE Frames(table_name, schema, count, pools)

(* the columns of the table whose cells come from the else branch of line 97 *)
FallbackColumns(table_name, schema, pools) ==
    LET fk_sources == FkSources(table_name)
    IN {schema[i][1] : i \in {j \in 1..Len(schema) :
            /\ Has(fk_sources, schema[j][1])
            /\ GetOr(pools, Get(fk_sources, schema[j][1]), {}) = {}}}

----------------------------------------------------------------------------
(* generate_all *)

(* CountFor taking an absent table as a table of no rows *)
CountForAbsentZero(table_name) ==
    IF table_name \in DOMAIN counts THEN counts[table_name] ELSE 0

(* counts.get(table_name, 100) *)
CountFor(table_name) ==
    IF table_name \in DOMAIN counts THEN counts[table_name] ELSE DefaultCount

(* PublishPools adding to each pool the values of the same kind the column
   does not hold *)
PublishPoolsWithExtra(table_name, df, pools) ==
    LET F[i \in 0..Len(relationships)] ==
            IF i = 0 THEN pools
            ELSE IF /\ relationships[i][1] = table_name
                    /\ relationships[i][2] \in ColumnSet(df)
                 THEN Put(F[i - 1], <<table_name, relationships[i][2]>>,
                          Unique(df, relationships[i][2]) \cup IntValues)
                 ELSE F[i - 1]
    IN F[Len(relationships)]

(* PublishPools keeping only the pools of the table just generated *)
PublishPoolsFresh(table_name, df, pools) ==
    LET F[i \in 0..Len(relationships)] ==
            IF i = 0 THEN <<>>
            ELSE IF /\ relationships[i][1] = table_name
                    /\ relationships[i][2] \in ColumnSet(df)
                 THEN Put(F[i - 1], <<table_name, relationships[i][2]>>,
                          Unique(df, relationships[i][2]))
                 ELSE F[i - 1]
    IN F[Len(relationships)]

(* PublishPools emptying a pool that is already under its key *)
PublishPoolsToggle(table_name, df, pools) ==
    LET F[i \in 0..Len(relationships)] ==
            IF i = 0 THEN pools
            ELSE IF /\ relationships[i][1] = table_name
                    /\ relationships[i][2] \in ColumnSet(df)
                 THEN Put(F[i - 1], <<table_name, relationships[i][2]>>,
                          IF Has(F[i - 1], <<table_name, relationships[i][2]>>)
                          THEN {}
                          ELSE Unique(df, relationships[i][2]))
                 ELSE F[i - 1]
    IN F[Len(relationships)]

(* lines 138-140: the pools after table_name's DataFrame df is scanned *)
PublishPools(table_name, df, pools) ==
    LET F[i \in 0..Len(relationships)] ==
            IF i = 0 THEN pools
            ELSE IF /\ relationships[i][1] = table_name
                    /\ relationships[i][2] \in ColumnSet(df)
                 THEN Put(F[i - 1], <<table_name, relationships[i][2]>>,
                          Unique(df, relationships[i][2]))
                 ELSE F[i - 1]
    IN F[Len(relationships)]

(* history of the fallback: one entry per column filled by line 98 *)
RecordFallbacks(table_name, cols, count, fb) ==
    LET RECURSIVE Rec(_, _)
        Rec(S, acc) ==
            IF S = {} THEN acc
            ELSE LET c == CHOOSE x \in S : TRUE
                 IN Rec(S \ {c}, Put(acc, <<table_name, c>>, count))
    IN IF count <= 0 THEN fb ELSE Rec(cols, fb)

(* generate_all(counts): line 126 enters build_dag *)
StartGenerateAll(cnts) ==
    /\ pc = "idle"
    /\ pc' = "dag"
    /\ caller' = "generate_all"
    /\ EnterBuildDag
    /\ counts' = cnts
    /\ idx' = 0
    /\ results' = <<>>
    /\ fk_pools' = <<>>
    /\ fallbacks' = <<>>
    /\ err' = NoErr
    /\ UNCHANGED <<tables, relationships>>

GenerateAllCall(cnts) ==
    /\ StartGenerateAll(cnts)
    /\ UNCHANGED appVars

(* GenerateStep walking the order from its last table to its first *)
GenerateStepReversed ==
    /\ pc = "gen"
    /\ idx <= Len(order)
    /\ LET table_name == order[Len(order) + 1 - idx]
       IN IF ~Has(tables, table_name)
          THEN /\ pc' = "error"
               /\ err' = [kind |-> "KeyError", remaining |-> {}, key |-> table_name]
               /\ UNCHANGED <<idx, results, fk_pools, fallbacks>>
          ELSE LET schema == Get(tables, table_name)
                   count == CountFor(table_name)
               IN \E df \in GenerateTable(table_name, schema, count, fk_pools) :
                     /\ results' = Put(results, table_name, df)
                     /\ fk_pools' = PublishPools(table_name, df, fk_pools)
                     /\ fallbacks' = RecordFallbacks(table_name,
                                         FallbackColumns(table_name, schema, fk_pools),
                                         count, fallbacks)
                     /\ idx' = idx + 1
                     /\ UNCHANGED <<pc, err>>
    /\ UNCHANGED <<appVars, tables, relationships, caller, in_degree, queue, order, counts>>

(* one iteration of the for loop, lines 130-140 *)
GenerateStep ==
    /\ pc = "gen"
    /\ idx <= Len(order)
    /\ LET table_name == order[idx]
       IN IF ~Has(tables, table_name)
          THEN /\ pc' = "error"
               /\ err' = [kind |-> "KeyError", remaining |-> {}, key |-> table_name]
               /\ UNCHANGED <<idx, results, fk_pools, fallbacks>>
          ELSE LET schema == Get(tables, table_name)
                   count == CountFor(table_name)
               IN \E df \in GenerateTable(table_name, schema, count, fk_pools) :
                     /\ results' = Put(results, table_name, df)
                     /\ fk_pools' = PublishPools(table_name, df, fk_pools)
                     /\ fallbacks' = RecordFallbacks(table_name,
                                         FallbackColumns(table_name, schema, fk_pools),
                                         count, fallbacks)
                     /\ idx' = idx + 1
                     /\ UNCHANGED <<pc, err>>
    /\ UNCHANGED <<appVars, tables, relationships, caller, in_degree, queue, order, counts>>

(* what the value returned by line 142 says about fallbacks: results maps
   table names to DataFrames and carries nothing else *)
Diagnostics == <<>>

(* line 142: return results *)
GenerateAllReturn ==
    /\ pc = "gen"
    /\ idx > Len(order)
    /\ pc' = "done"
    /\ UNCHANGED <<appVars, tables, relationships, caller, in_degree, queue, order, counts,
                   idx, results, fk_pools, err, fallbacks>>

CountsInputs ==
    [KeySet(tables) -> 0..MaxCount]

Next ==
    \/ \E n \in Names, s \in Schemas : AddTable(n, s)
    \/ \E p \in Names, c \in Names :
          AddRelationship(p, "id", c, "fk", MaxRels)
    \/ \E cnts \in CountsInputs : GenerateAllCall(cnts)
    \/ KahnStep
    \/ BuildDagExit
    \/ GenerateStep
    \/ GenerateAllReturn
    \/ CallOver

Spec == Init /\ [][Next]_vars

NextDag ==
    \/ \E n \in Names, s \in Schemas : AddTable(n, s)
    \/ \E p \in Names, c \in Names : AddRelationship(p, "id", c, "fk", MaxDagRels)
    \/ BuildDagCall
    \/ KahnStep
    \/ BuildDagExit
    \/ CallOver

SpecDag == Init /\ [][NextDag]_vars

(* generate_all with a counts mapping that may leave tables out, over two
   table names and up to MaxPoolCount rows a table *)
PoolNames == {"A", "B"}

PartialCountsInputs ==
    UNION {[D -> 0..MaxPoolCount] : D \in SUBSET KeySet(tables)}

NextCounts ==
    \/ \E n \in PoolNames, s \in Schemas : AddTable(n, s)
    \/ \E p \in PoolNames, c \in PoolNames :
          AddRelationship(p, "id", c, "fk", MaxPoolRels)
    \/ \E cnts \in PartialCountsInputs : GenerateAllCall(cnts)
    \/ KahnStep
    \/ BuildDagExit
    \/ GenerateStep
    \/ GenerateAllReturn
    \/ CallOver

SpecCounts == Init /\ [][NextCounts]_vars

----------------------------------------------------------------------------
(* render_relational_tab (src/app/ui_relational.py).  The session keeps
   multi_schemas and relationships; the click builds a new RelationalEngine
   and registers all of them in their order (lines 130-136), so tables and
   relationships stand for both the session's and the engine's. *)

(* lines 37-42: the schema of an uploaded file, kept if the name is new *)
UiUpload(name, schema) ==
    /\ pc = "idle"
    /\ ui = "idle"
    /\ ~Has(tables, name)
    /\ tables' = Put(tables, name, schema)
    /\ UNCHANGED <<relationships, runVars, appVars>>

(* lines 66-87: the four select boxes and the Add Relationship button *)
UiAddRelationship(parent_table, parent_col, child_table, child_col) ==
    /\ pc = "idle"
    /\ ui = "idle"
    /\ Len(relationships) < MaxUiRels
    /\ Has(tables, parent_table)
    /\ Has(Get(tables, parent_table), parent_col)
    /\ Has(tables, child_table)
    /\ Len(tables) > 1 => child_table # parent_table
    /\ Has(Get(tables, child_table), child_col)
    /\ <<parent_table, parent_col, child_table, child_col>> \notin SeqSet(relationships)
    /\ relationships' = Append(relationships,
                               <<parent_table, parent_col, child_table, child_col>>)
    /\ UNCHANGED <<tables, runVars, appVars>>

(* lines 95-97: the delete button of relationship i *)
UiDeleteRelationship(i) ==
    /\ pc = "idle"
    /\ ui = "idle"
    /\ i \in 1..Len(relationships)
    /\ relationships' = [k \in 1..(Len(relationships) - 1) |->
                            IF k < i THEN relationships[k] ELSE relationships[k + 1]]
    /\ UNCHANGED <<tables, runVars, appVars>>

(* lines 110-116: one number input a table, min_value=1 *)
UiCountsInputs == [KeySet(tables) -> 1..MaxUiCount]

(* lines 129-140: the Generate All Tables button, up to the call of
   generate_all *)
UiGenerateClick(cnts) ==
    /\ ui = "idle"
    /\ tables # <<>>
    /\ StartGenerateAll(cnts)
    /\ ui' = "running"
    /\ pushed' = <<>>
    /\ UNCHANGED <<forge, libVars>>

(* lines 145-147: sink.push of the next table of results *)
UiPush ==
    /\ ui = "running"
    /\ pc = "done"
    /\ Len(pushed) < Len(results)
    /\ pushed' = Append(pushed, results[Len(pushed) + 1][1])
    /\ UNCHANGED <<tables, relationships, runVars, ui, forge, libVars>>

(* lines 149-154: st.success after the last push *)
UiSuccess ==
    /\ ui = "running"
    /\ pc = "done"
    /\ Len(pushed) = Len(results)
    /\ ui' = "success"
    /\ UNCHANGED <<tables, relationships, runVars, pushed, forge, libVars>>

(* UiExcept with the ValueError swallowed: nothing is shown *)
UiExceptSilent ==
    /\ ui = "running"
    /\ pc = "error"
    /\ ui' = IF err.kind = "ValueError" THEN "idle" ELSE "crashed"
    /\ UNCHANGED <<tables, relationships, runVars, pushed, forge, libVars>>

(* lines 156-157: except ValueError shows st.error; any other exception
   leaves the handler *)
UiExcept ==
    /\ ui = "running"
    /\ pc = "error"
    /\ ui' = IF err.kind = "ValueError" THEN "error" ELSE "crashed"
    /\ UNCHANGED <<tables, relationships, runVars, pushed, forge, libVars>>

(* the script run is over; the engine and its results are gone *)
UiRerun ==
    /\ ui \in {"success", "error", "crashed"}
    /\ ResetRun
    /\ ui' = "idle"
    /\ pushed' = <<>>
    /\ UNCHANGED <<tables, relationships, forge, libVars>>

NextUi ==
    \/ \E n \in Names, s \in Schemas : UiUpload(n, s)
    \/ \E p \in Names, c \in Names : UiAddRelationship(p, "id", c, "fk")
    \/ \E i \in 1..MaxUiRels : UiDeleteRelationship(i)
    \/ \E cnts \in UiCountsInputs : UiGenerateClick(cnts)
    \/ KahnStep
    \/ BuildDagExit
    \/ GenerateStep
    \/ GenerateAllReturn
    \/ UiPush
    \/ UiSuccess
    \/ UiExcept
    \/ UiRerun

SpecUi == Init /\ [][NextUi]_vars

----------------------------------------------------------------------------
(* ForgeEngine (src/core/generator.py).  A Python value is a token: "None"
   is None, the tokens of IntTokens are ints, every other token is a str.
   A row is a function from column names to tokens; a DataFrame is its
   column names in order and its rows in order. *)

ForgeSchemaA == << <<"name", "String">>, <<"city", "String">> >>
ForgeSchemaB == << <<"name", "String">>, <<"age", "Int64">> >>
ForgeSchemas == {ForgeSchemaA, ForgeSchemaB}

IntTokens == {"42", "7"}
TypeOf(v) == IF v = "None" THEN "null" ELSE IF v \in IntTokens THEN "int" ELSE "str"

(* SMART_PROVIDERS, lines 15-51: the patterns a column name of ForgeSchemas
   can match, in the order of the list *)
SMART_PROVIDERS ==
    << <<"id|index|key", "random_int">>,
       <<"full[-_]?name|(?:^name$)", "name">>,
       <<"city", "city">> >>

(* re.search(pattern, col_lower) over the column names of ForgeSchemas *)
Search(pattern, col) ==
    <<pattern, col>> \in {<<"full[-_]?name|(?:^name$)", "name">>, <<"city", "city">>}

(* _dtype_provider, lines 85-93; the model's Int dtype is Int64 *)
DTypeProvider(dtype) ==
    IF dtype \in {"Int64"} THEN "random_int" ELSE "word"

(* _get_provider, lines 61-83; the cache only saves the search *)
GetProvider(col_name, dtype) ==
    LET hits == SelectSeq(SMART_PROVIDERS, LAMBDA e : Search(e[1], col_name))
    IN IF dtype \in {"String", "Utf8", "Categorical"} /\ hits # <<>>
       THEN hits[1][2]
       ELSE DTypeProvider(dtype)

(* what a provider can return, one value of each kept *)
ProviderValues(provider) ==
    IF provider = "random_int" THEN IntTokens
    ELSE IF provider = "name" THEN {"Alice"}
    ELSE IF provider = "city" THEN {"New York"}
    ELSE {"word"}

(* pl.DataFrame(data) for a list of dicts: the columns are the keys of the
   first dict in their order; an empty list gives no column *)
ForgeFrame(columns, rows) ==
    IF rows = <<>> THEN [columns |-> <<>>, rows |-> <<>>]
    ELSE [columns |-> columns, rows |-> rows]

(* lines 118-129: providers a column, then count rows *)
FakerRowSet(schema) ==
    {r \in [KeySet(schema) -> UNION {ProviderValues(GetProvider(schema[i][1], schema[i][2])) :
                                        i \in 1..Len(schema)}] :
        \A i \in 1..Len(schema) :
            r[schema[i][1]] \in ProviderValues(GetProvider(schema[i][1], schema[i][2]))}

FakerFrames(schema, count) ==
    {ForgeFrame(Keys(schema), rows) :
        rows \in [1..(IF count > 0 THEN count ELSE 0) -> FakerRowSet(schema)]}

(* the records llm_engine.generate_data hands back at line 102: dicts that
   miss a schema key, carry a key outside the schema, or hold an int where
   the other records hold a str *)
RecordInputs ==
    { [name |-> "Bob", city |-> "Los Angeles"],
      [name |-> "Bob"],
      [name |-> "Bob", city |-> "Los Angeles", zip |-> "90001"],
      [name |-> "42", city |-> "Los Angeles"],
      [zip |-> "90001"] }

RecordLists == UNION {[1..n -> RecordInputs] : n \in 0..MaxRecords}

(* the llm_engine argument: None, or an object whose generate_data returns
   a list of records or raises *)
LlmEngines ==
    {[present |-> FALSE, raises |-> FALSE, records |-> <<>>],
     [present |-> TRUE, raises |-> TRUE, records |-> <<>>]}
    \cup {[present |-> TRUE, raises |-> FALSE, records |-> r] : r \in RecordLists}

(* Normalize keeping each record as it came *)
NormalizeAsIs(schema, rec) == rec

(* lines 105-111: row[col] = rec.get(col) for col in schema_cols *)
Normalize(schema, rec) ==
    [c \in KeySet(schema) |-> IF c \in DOMAIN rec THEN rec[c] ELSE "None"]

Normalized(schema, records) ==
    [i \in 1..Len(records) |-> Normalize(schema, records[i])]

(* schema_cols is a set of str: its iteration order, which gives the rows
   their key order, is one of the orders of the column names *)
Orders(S) ==
    {q \in [1..Cardinality(S) -> S] : \A i, j \in 1..Cardinality(S) : i # j => q[i] # q[j]}

(* line 113: pl.DataFrame(normalized) builds the frame; on a column that
   holds both a str and an int the constructor raises or coerces, depending
   on the polars release *)
MixedColumn(rows) ==
    \E c \in DOMAIN rows[1] : \E i, j \in 1..Len(rows) :
        /\ TypeOf(rows[i][c]) # "null"
        /\ TypeOf(rows[j][c]) # "null"
        /\ TypeOf(rows[i][c]) # TypeOf(rows[j][c])

BuildOutcomes(rows) == IF MixedColumn(rows) THEN {"ok", "raise"} ELSE {"ok"}

(* lines 118-129 reached from the LLM branch or directly *)
FakerOutcomes(schema, count, llm) ==
    {[raised |-> FALSE, llm |-> llm, df |-> df] : df \in FakerFrames(schema, count)}

(* generate_records without the try of lines 112-116: a DataFrame that
   cannot be built ends the call *)
GenerateRecordsNoCatch(schema, count, use_llm, llm_engine) ==
    IF use_llm /\ llm_engine.present
    THEN IF llm_engine.raises
         THEN {[raised |-> TRUE, llm |-> "raised", df |-> ForgeFrame(<<>>, <<>>)]}
         ELSE IF llm_engine.records # <<>>
              THEN LET normalized == Normalized(schema, llm_engine.records)
                   IN {[raised |-> FALSE, llm |-> "ok", df |-> ForgeFrame(cols, normalized)] :
                          cols \in IF "ok" \in BuildOutcomes(normalized)
                                   THEN Orders(KeySet(schema)) ELSE {}}
                      \cup (IF "raise" \in BuildOutcomes(normalized)
                            THEN {[raised |-> TRUE, llm |-> "build_failed",
                                   df |-> ForgeFrame(<<>>, <<>>)]}
                            ELSE {})
              ELSE FakerOutcomes(schema, count, "empty")
    ELSE FakerOutcomes(schema, count, IF use_llm THEN "none" ELSE "unused")

(* generate_records, lines 95-129: every way the call can end, with what
   became of the LLM branch *)
GenerateRecords(schema, count, use_llm, llm_engine) ==
    IF use_llm /\ llm_engine.present
    THEN IF llm_engine.raises
         THEN {[raised |-> TRUE, llm |-> "raised", df |-> ForgeFrame(<<>>, <<>>)]}
         ELSE IF llm_engine.records # <<>>
              THEN LET normalized == Normalized(schema, llm_engine.records)
                   IN {[raised |-> FALSE, llm |-> "ok", df |-> ForgeFrame(cols, normalized)] :
                          cols \in IF "ok" \in BuildOutcomes(normalized)
                                   THEN Orders(KeySet(schema)) ELSE {}}
                      \cup (IF "raise" \in BuildOutcomes(normalized)
                            THEN FakerOutcomes(schema, count, "build_failed")
                            ELSE {})
              ELSE FakerOutcomes(schema, count, "empty")
    ELSE FakerOutcomes(schema, count, IF use_llm THEN "none" ELSE "unused")

(* a call of generate_records and its end *)
GenerateRecordsCall(schema, count, use_llm, llm_engine) ==
    /\ forge.phase = "idle"
    /\ \E o \in GenerateRecords(schema, count, use_llm, llm_engine) :
          forge' = [phase |-> IF o.raised THEN "raised" ELSE "returned",
                    schema |-> schema, count |-> count, use_llm |-> use_llm,
                    llm_engine |-> llm_engine, llm |-> o.llm, df |-> o.df]
    /\ UNCHANGED <<tables, relationships, runVars, ui, pushed, libVars>>

(* the caller has the DataFrame or the exception *)
ForgeOver ==
    /\ forge.phase # "idle"
    /\ forge' = ForgeIdle
    /\ UNCHANGED <<tables, relationships, runVars, ui, pushed, libVars>>

NextForge ==
    \/ \E schema \in ForgeSchemas, count \in 0..MaxForgeCount,
          use_llm \in BOOLEAN, llm_engine \in LlmEngines :
          GenerateRecordsCall(schema, count, use_llm, llm_engine)
    \/ ForgeOver

SpecForge == Init /\ [][NextForge]_vars

----------------------------------------------------------------------------
(* build_dag and generate_all called one after the other on one engine,
   over two table names; prev keeps what the call before this one saw and
   gave *)

(* the call is over, and remembered *)
CallOverRecord ==
    /\ pc \in {"done", "error"}
    /\ ResetRun
    /\ prev' = [valid |-> TRUE, tables |-> tables, relationships |-> relationships,
                order |-> order, kind |-> err.kind, caller |-> caller]
    /\ UNCHANGED <<tables, relationships, ui, pushed, forge, rules_call, sink, tt>>

NextCalls ==
    \/ \E n \in PoolNames, s \in Schemas : AddTable(n, s)
    \/ \E p \in PoolNames, c \in PoolNames :
          AddRelationship(p, "id", c, "fk", MaxCallRels)
    \/ BuildDagCall
    \/ \E cnts \in CountsInputs : GenerateAllCall(cnts)
    \/ KahnStep
    \/ BuildDagExit
    \/ GenerateStep
    \/ GenerateAllReturn
    \/ CallOverRecord

SpecCalls == Init /\ [][NextCalls]_vars

----------------------------------------------------------------------------
(* LLMLogicEngine.apply_rules (src/core/llm_logic.py).  A rule is given by
   what translate_rule and compile_rule make of its text: nothing at all
   (the text is blank), no lambda, a lambda that does not compile, or a
   function over rows.  The DataFrame and the schema have the columns of
   ForgeSchemaB. *)

max_retries == 5

RuleInputs ==
    { [kind |-> "blank", fn |-> "none"],
      [kind |-> "untranslatable", fn |-> "none"],
      [kind |-> "uncompilable", fn |-> "none"],
      [kind |-> "compiled", fn |-> "age_is_42"],
      [kind |-> "compiled", fn |-> "age_is_7"],
      [kind |-> "compiled", fn |-> "raises"] }

RuleLists == UNION {[1..n -> RuleInputs] : n \in 0..MaxRules}

RuleRowInputs == { [name |-> "Alice", age |-> "42"], [name |-> "Alice", age |-> "7"] }

RuleFrames == UNION {[1..n -> RuleRowInputs] : n \in 0..MaxRuleRows}

(* _safe_check, lines 352-357: bool(fn(row)), False when fn raises *)
SafeCheck(row, fn) ==
    IF fn = "age_is_42" THEN row["age"] = "42"
    ELSE IF fn = "age_is_7" THEN row["age"] = "7"
    ELSE FALSE

(* _row_passes_all, lines 345-350 *)
RowPassesAll(row, compiled_rules) ==
    \A k \in 1..Len(compiled_rules) : SafeCheck(row, compiled_rules[k])

(* lines 269-296: the rules that compile, in order *)
CompiledRules(rules) ==
    LET ok == SelectSeq(rules, LAMBDA r : r.kind = "compiled")
    IN [k \in 1..Len(ok) |-> ok[k].fn]

(* lines 275-294: one log entry for each rule that is not blank and does
   not translate or does not compile *)
FailedLog(rules) ==
    LET bad == SelectSeq(rules, LAMBDA r : r.kind \in {"untranslatable", "uncompilable"})
    IN [k \in 1..Len(bad) |-> [rule |-> bad[k], success |-> FALSE, rows_regenerated |-> 0]]

(* lines 331-341: one log entry for each compiled rule, each with the total *)
CompiledLog(rules, total_regenerated) ==
    LET ok == SelectSeq(rules, LAMBDA r : r.kind = "compiled")
    IN [k \in 1..Len(ok) |-> [rule |-> ok[k], success |-> TRUE,
                              rows_regenerated |-> total_regenerated]]

(* engine.generate_records(schema, 1).to_dicts()[0], lines 317-318 *)
NewRows == {f.rows[1] : f \in FakerFrames(ForgeSchemaB, 1)}

rulesOthers == <<tables, relationships, runVars, ui, pushed, forge, sink, tt, prev>>

(* apply_rules(df, rules, schema) up to the row loop, lines 263-308; the
   history generated keeps, for each row handled, whether each row generated
   for it passed *)
ApplyRulesCall(df, rules) ==
    /\ rules_call.phase = "idle"
    /\ rules_call' =
          [phase |-> IF CompiledRules(rules) = <<>> THEN "returned" ELSE "rows",
           df |-> df, rules |-> rules,
           compiled_rules |-> CompiledRules(rules),
           results |-> FailedLog(rules),
           i |-> 1, attempt |-> 0, verdicts |-> <<>>,
           final_rows |-> <<>>, total_regenerated |-> 0,
           generated |-> <<>>,
           out |-> IF CompiledRules(rules) = <<>> THEN df ELSE <<>>]
    /\ UNCHANGED rulesOthers

(* lines 310-315: the next row, kept if it passes, else the retry loop *)
ApplyRulesRow ==
    /\ rules_call.phase = "rows"
    /\ rules_call.i <= Len(rules_call.df)
    /\ LET row == rules_call.df[rules_call.i]
       IN IF RowPassesAll(row, rules_call.compiled_rules)
          THEN rules_call' = [rules_call EXCEPT
                                 !.final_rows = Append(@, row),
                                 !.generated = Append(@, <<>>),
                                 !.i = @ + 1]
          ELSE rules_call' = [rules_call EXCEPT !.phase = "retry", !.attempt = 0,
                                                 !.verdicts = <<>>]
    /\ UNCHANGED rulesOthers

(* ApplyRulesAttempt without the break of line 323: a passing row is taken
   only from the last pass *)
ApplyRulesAttemptNoBreak ==
    /\ rules_call.phase = "retry"
    /\ \E new_row \in NewRows :
          LET n == rules_call.attempt + 1
              passes == RowPassesAll(new_row, rules_call.compiled_rules)
          IN rules_call' =
                IF passes /\ n = max_retries
                THEN [rules_call EXCEPT
                         !.final_rows = Append(@, new_row),
                         !.total_regenerated = @ + 1,
                         !.generated = Append(@, Append(rules_call.verdicts, passes)),
                         !.phase = "rows", !.i = @ + 1]
                ELSE IF n < max_retries
                THEN [rules_call EXCEPT !.attempt = n, !.verdicts = Append(@, passes)]
                ELSE [rules_call EXCEPT
                         !.final_rows = Append(@, rules_call.df[rules_call.i]),
                         !.generated = Append(@, Append(rules_call.verdicts, passes)),
                         !.phase = "rows", !.i = @ + 1]
    /\ UNCHANGED rulesOthers

(* lines 316-326: one pass of the retry loop, and what follows the loop
   when this pass is its last *)
ApplyRulesAttempt ==
    /\ rules_call.phase = "retry"
    /\ \E new_row \in NewRows :
          LET n == rules_call.attempt + 1
              passes == RowPassesAll(new_row, rules_call.compiled_rules)
          IN rules_call' =
                IF passes
                THEN [rules_call EXCEPT
                         !.final_rows = Append(@, new_row),
                         !.total_regenerated = @ + 1,
                         !.generated = Append(@, Append(rules_call.verdicts, passes)),
                         !.phase = "rows", !.i = @ + 1]
                ELSE IF n < max_retries
                THEN [rules_call EXCEPT !.attempt = n, !.verdicts = Append(@, passes)]
                ELSE [rules_call EXCEPT
                         !.final_rows = Append(@, rules_call.df[rules_call.i]),
                         !.generated = Append(@, Append(rules_call.verdicts, passes)),
                         !.phase = "rows", !.i = @ + 1]
    /\ UNCHANGED rulesOthers

(* ApplyRulesReturn filtering the rows that fail a rule out of the result *)
ApplyRulesReturnFiltered ==
    /\ rules_call.phase = "rows"
    /\ rules_call.i > Len(rules_call.df)
    /\ rules_call' = [rules_call EXCEPT
                         !.phase = "returned",
                         !.out = SelectSeq(rules_call.final_rows,
                                     LAMBDA r : RowPassesAll(r, rules_call.compiled_rules)),
                         !.results = @ \o CompiledLog(rules_call.rules,
                                                      rules_call.total_regenerated)]
    /\ UNCHANGED rulesOthers

(* lines 329-343: the result DataFrame and the log of the compiled rules *)
ApplyRulesReturn ==
    /\ rules_call.phase = "rows"
    /\ rules_call.i > Len(rules_call.df)
    /\ rules_call' = [rules_call EXCEPT
                         !.phase = "returned",
                         !.out = rules_call.final_rows,
                         !.results = @ \o CompiledLog(rules_call.rules,
                                                      rules_call.total_regenerated)]
    /\ UNCHANGED rulesOthers

(* the caller has the result *)
ApplyRulesOver ==
    /\ rules_call.phase = "returned"
    /\ rules_call' = RulesIdle
    /\ UNCHANGED rulesOthers

NextRules ==
    \/ /\ rules_call.phase = "idle"
       /\ \E df \in RuleFrames, rules \in RuleLists : ApplyRulesCall(df, rules)
    \/ ApplyRulesRow
    \/ ApplyRulesAttempt
    \/ ApplyRulesReturn
    \/ ApplyRulesOver

SpecRules == Init /\ [][NextRules]_vars

----------------------------------------------------------------------------
(* LocalSink._write_batches (src/core/sinks.py).  The DataFrame is given by
   its length n; its rows are their positions 0..n-1.  A file written is
   <<i, ext, rows>> for part_i.ext. *)

FileFormats == {"parquet", "csv", "json", "xml"}

(* math.ceil(a / b) for a >= 0, b >= 1 *)
Ceil(a, b) == CHOOSE k \in 0..a : k * b >= a /\ (k = 0 \/ (k - 1) * b < a)

(* NumFiles rounding down *)
NumFilesFloor(n, records_per_file) ==
    IF n \div records_per_file >= 1 THEN n \div records_per_file ELSE 1

(* line 60: max(1, math.ceil(len(df) / records_per_file)) *)
NumFiles(n, records_per_file) ==
    IF Ceil(n, records_per_file) >= 1 THEN Ceil(n, records_per_file) ELSE 1

(* df.slice(offset, length) of a frame of n rows *)
Slice(n, offset, length) ==
    LET stop == IF offset + length < n THEN offset + length ELSE n
    IN IF offset >= n THEN <<>> ELSE [k \in 1..(stop - offset) |-> offset + k - 1]

(* line 66: the extension, parquet for a format that is not known *)
Ext(file_format) ==
    IF file_format \in {"parquet", "csv", "json"} THEN file_format ELSE "parquet"

sinkOthers == <<tables, relationships, runVars, ui, pushed, forge, rules_call, tt, prev>>

(* lines 58-60: _write_batches(df, out_dir, file_format, records_per_file) *)
WriteBatchesCall(n, file_format, records_per_file) ==
    /\ sink.phase = "idle"
    /\ sink' = [phase |-> "loop", n |-> n, file_format |-> file_format,
                records_per_file |-> records_per_file,
                num_files |-> NumFiles(n, records_per_file),
                i |-> 0, files |-> <<>>]
    /\ UNCHANGED sinkOthers

(* lines 62-77: one iteration of the for loop *)
WriteBatch ==
    /\ sink.phase = "loop"
    /\ sink.i < sink.num_files
    /\ LET batch == Slice(sink.n, sink.i * sink.records_per_file, sink.records_per_file)
       IN sink' = IF batch = <<>>
                  THEN [sink EXCEPT !.i = @ + 1]
                  ELSE [sink EXCEPT !.i = @ + 1,
                                    !.files = Append(@, <<sink.i, Ext(sink.file_format), batch>>)]
    /\ UNCHANGED sinkOthers

(* line 79: return paths *)
WriteBatchesReturn ==
    /\ sink.phase = "loop"
    /\ sink.i = sink.num_files
    /\ sink' = [sink EXCEPT !.phase = "returned"]
    /\ UNCHANGED sinkOthers

WriteBatchesOver ==
    /\ sink.phase = "returned"
    /\ sink' = SinkIdle
    /\ UNCHANGED sinkOthers

NextSink ==
    \/ /\ sink.phase = "idle"
       /\ \E n \in 0..MaxRows, ff \in FileFormats, r \in 1..MaxPerFile :
             WriteBatchesCall(n, ff, r)
    \/ WriteBatch
    \/ WriteBatchesReturn
    \/ WriteBatchesOver

SpecSink == Init /\ [][NextSink]_vars

----------------------------------------------------------------------------
(* TimeTravelEngine._generate_periods (src/core/time_travel.py).  A
   datetime.date is <<year, month, day>>; the dates that exist run from
   <<1, 1, 1>> to MaxDate, and building one outside them raises
   (OverflowError from date + timedelta, ValueError from date.replace). *)

MaxSpanDays == 35

IsLeap(y) == (y % 4 = 0 /\ y % 100 # 0) \/ y % 400 = 0
DaysIn(y, m) ==
    IF m = 2 THEN (IF IsLeap(y) THEN 29 ELSE 28)
    ELSE IF m \in {4, 6, 9, 11} THEN 30 ELSE 31
MaxDate == <<9999, 12, 31>>
ValidDate(d) ==
    /\ d[1] \in 1..MaxDate[1]
    /\ d[2] \in 1..12
    /\ d[3] \in 1..DaysIn(d[1], d[2])

(* a < b on dates *)
Before(a, b) ==
    \/ a[1] < b[1]
    \/ a[1] = b[1] /\ a[2] < b[2]
    \/ a[1] = b[1] /\ a[2] = b[2] /\ a[3] < b[3]

NextDay(d) ==
    IF d[3] < DaysIn(d[1], d[2]) THEN <<d[1], d[2], d[3] + 1>>
    ELSE IF d[2] < 12 THEN <<d[1], d[2] + 1, 1>>
    ELSE <<d[1] + 1, 1, 1>>

(* d + timedelta(days=k); a result after MaxDate is not a ValidDate *)
RECURSIVE AddDays(_, _)
AddDays(d, k) == IF k = 0 THEN d ELSE AddDays(NextDay(d), k - 1)

Raised == [raised |-> TRUE]
Value(d) == [raised |-> FALSE, date |-> d]

(* lines 95-104: the month after current's, on current's day, or on the
   28th when that day does not exist; the second replace is outside the
   try, so its ValueError leaves the function *)
NextMonth(current) ==
    LET month == IF current[2] + 1 > 12 THEN 1 ELSE current[2] + 1
        year == IF current[2] + 1 > 12 THEN current[1] + 1 ELSE current[1]
        same_day == <<year, month, current[3]>>
        day_28 == <<year, month, 28>>
    IN IF ValidDate(same_day) THEN Value(same_day)
       ELSE IF ValidDate(day_28) THEN Value(day_28)
       ELSE Raised

(* lines 89-104: period_end before it is clamped to end *)
PeriodEnd(current, frequency) ==
    IF frequency = "daily"
    THEN (IF ValidDate(AddDays(current, 1)) THEN Value(AddDays(current, 1)) ELSE Raised)
    ELSE IF frequency = "weekly"
    THEN (IF ValidDate(AddDays(current, 7)) THEN Value(AddDays(current, 7)) ELSE Raised)
    ELSE NextMonth(current)

(* min(period_end, end) *)
MinDate(a, b) == IF Before(b, a) THEN b ELSE a

Frequencies == {"daily", "weekly", "monthly"}
StartDates ==
    {<<2023, 1, 31>>, <<2023, 12, 15>>, <<2024, 1, 31>>, <<9999, 12, 1>>, <<9999, 12, 27>>}
EndDates(start) ==
    {d \in {AddDays(start, k) : k \in 0..MaxSpanDays} : ValidDate(d)} \cup {<<2023, 1, 1>>}

periodsOthers == <<tables, relationships, runVars, ui, pushed, forge, rules_call, sink, prev>>

(* lines 85-86: _generate_periods(start, end, frequency) *)
GeneratePeriodsCall(start, end, frequency) ==
    /\ tt.phase = "idle"
    /\ tt' = [phase |-> "loop", start |-> start, end |-> end, frequency |-> frequency,
              current |-> start, periods |-> <<>>]
    /\ UNCHANGED periodsOthers

(* lines 88-108: one iteration of the while loop *)
GeneratePeriodsStep ==
    /\ tt.phase = "loop"
    /\ Before(tt.current, tt.end)
    /\ LET period_end == PeriodEnd(tt.current, tt.frequency)
       IN tt' = IF period_end.raised
                THEN [tt EXCEPT !.phase = "raised"]
                ELSE [tt EXCEPT !.periods = Append(@, <<tt.current, MinDate(period_end.date, tt.end)>>),
                                !.current = MinDate(period_end.date, tt.end)]
    /\ UNCHANGED periodsOthers

(* line 110: return periods *)
GeneratePeriodsReturn ==
    /\ tt.phase = "loop"
    /\ ~Before(tt.current, tt.end)
    /\ tt' = [tt EXCEPT !.phase = "returned"]
    /\ UNCHANGED periodsOthers

GeneratePeriodsOver ==
    /\ tt.phase \in {"returned", "raised"}
    /\ tt' = PeriodsIdle
    /\ UNCHANGED periodsOthers

NextPeriods ==
    \/ /\ tt.phase = "idle"
       /\ \E start \in StartDates, frequency \in Frequencies :
             \E end \in EndDates(start) : GeneratePeriodsCall(start, end, frequency)
    \/ GeneratePeriodsStep
    \/ GeneratePeriodsReturn
    \/ GeneratePeriodsOver

SpecPeriods == Init /\ [][NextPeriods]_vars

----------------------------------------------------------------------------
(* Vocabulary of the properties *)

IndexOf(s, x) == CHOOSE i \in 1..Len(s) : s[i] = x
Registered == KeySet(tables)
Edges == {<<relationships[i][1], relationships[i][3]>> : i \in 1..Len(relationships)}
Succ(E, S) == {e[2] : e \in {x \in E : x[1] \in S}}
Descendants(E, a) ==
    LET F[n \in 0..Cardinality(Names)] ==
            IF n = 0 THEN Succ(E, {a}) ELSE F[n - 1] \cup Succ(E, F[n - 1])
    IN F[Cardinality(Names)]
OnCycle(a) == a \in Descendants(Edges, a)
RegisteredEdges == {e \in Edges : e[1] \in Registered /\ e[2] \in Registered}
OnRegisteredCycle(a) == a \in Descendants(RegisteredEdges, a)
BuildDagReturned == pc = "done" /\ caller = "build_dag"
BuildDagRaised == pc = "error" /\ err.kind = "ValueError"
Frame(t) == Get(results, t)
SchemaOf(t) == Get(tables, t)

----------------------------------------------------------------------------
(* C1: whenever build_dag returns an order, every declared relationship has
   its parent table in the order at a strictly smaller index than its child
   table. *)
C1_ParentBeforeChild ==
    BuildDagReturned =>
        \A i \in 1..Len(relationships) :
            LET p == relationships[i][1]
                c == relationships[i][3]
            IN /\ p \in SeqSet(order)
               /\ c \in SeqSet(order)
               /\ IndexOf(order, p) < IndexOf(order, c)

(* C2: after generate_all returns with every requested count >= 1, for every
   declared relationship whose parent table has a row, every value in the
   child's column cc is one of the values generated in column pc of the
   parent. *)
C2_ReferentialIntegrity ==
    (pc = "done" /\ caller = "generate_all"
        /\ \A t \in Registered : CountFor(t) >= 1) =>
        \A i \in 1..Len(relationships) :
            LET p == relationships[i][1]
                pcol == relationships[i][2]
                c == relationships[i][3]
                ccol == relationships[i][4]
            IN (/\ Has(results, p) /\ Frame(p).height >= 1
                /\ Has(results, c) /\ ccol \in ColumnSet(Frame(c))) =>
                    /\ pcol \in ColumnSet(Frame(p))
                    /\ Unique(Frame(c), ccol) \subseteq Unique(Frame(p), pcol)

(* C3: when the relationships hold a cycle among registered tables,
   generate_all generates no row and publishes no pool, and it ends with the
   cyclic-dependency error. *)
C3_CycleFailsFast ==
    (caller = "generate_all" /\ \E t \in Registered : OnRegisteredCycle(t)) =>
        /\ results = <<>>
        /\ fk_pools = <<>>
        /\ pc \notin {"gen", "done"}
        /\ (pc = "error" => err.kind = "ValueError")

(* C4: when build_dag raises, the tables named in the error include every
   registered table that lies on a cycle of the relationship graph. *)
C4_ErrorNamesCycleTables ==
    BuildDagRaised =>
        \A t \in Registered : OnCycle(t) => t \in err.remaining

C4_Witness ==
    /\ BuildDagRaised
    /\ err.remaining = {"A", "B", "C"}
    /\ \A t \in Names : OnCycle(t)
    /\ Len(relationships) = 3

(* C5: build_dag terminates: no name is dequeued twice, no in-degree is
   negative, and a running resolver always reaches its return or its raise:
   every iteration can run (the children it decrements have an in-degree)
   and puts one more name in the order, the order and the frontier together
   never hold more names than in_degree has keys, and with an empty
   frontier the only step is the return or the raise. *)
NoRepeatInOrder == \A i, j \in 1..Len(order) : order[i] = order[j] => i = j
NoNegativeInDegree == \A i \in 1..Len(in_degree) : in_degree[i][2] >= 0
QueueAndOrderDisjoint ==
    /\ SeqSet(order) \cap SeqSet(queue) = {}
    /\ \A i, j \in 1..Len(queue) : queue[i] = queue[j] => i = j
C5_Bounded ==
    pc = "dag" =>
        /\ NoRepeatInOrder
        /\ NoNegativeInDegree
        /\ QueueAndOrderDisjoint
        /\ Len(order) + Len(queue) <= Len(in_degree)
        /\ queue # <<>> => SeqSet(Graph(Head(queue))) \subseteq KeySet(in_degree)
C5_Progress ==
    pc = "dag" =>
        \/ /\ pc' = "dag"
           /\ queue # <<>>
           /\ Len(order') = Len(order) + 1
           /\ Keys(in_degree') = Keys(in_degree)
        \/ /\ pc' \in {"done", "error"}
           /\ queue = <<>>
C5_BuildDagTerminates == [][C5_Bounded /\ C5_Bounded' /\ C5_Progress]_vars

C5_Witness ==
    /\ BuildDagRaised
    /\ order # <<>>
    /\ \E t \in Registered : OnCycle(t)
    /\ \E i \in 1..Len(in_degree) : in_degree[i][2] > 0

(* C6: the returned order is the FIFO Kahn order: first the tables without
   incoming relationship, in registration order; then every other name in the
   order in which its in-degree reached zero, that is by the position of its
   last parent in the order and, for the same parent, by the position of
   that parent's last relationship to it. *)
Roots == SelectSeq(Keys(tables), LAMBDA t : \A e \in Edges : e[2] # t)
Max(S) == CHOOSE x \in S : \A y \in S : y <= x
ReleaseKey(c) ==
    LET parents == {e[1] : e \in {x \in Edges : x[2] = c}}
        lastPos == Max({IndexOf(order, p) : p \in parents})
        lastRel == Max({i \in 1..Len(relationships) :
                           /\ relationships[i][3] = c
                           /\ relationships[i][1] = order[lastPos]})
    IN <<lastPos, lastRel>>
KeyLess(a, b) == a[1] < b[1] \/ (a[1] = b[1] /\ a[2] < b[2])
C6_FifoKahnOrder ==
    BuildDagReturned =>
        /\ Len(Roots) <= Len(order)
        /\ SubSeq(order, 1, Len(Roots)) = Roots
        /\ \A i, j \in (Len(Roots) + 1)..Len(order) :
              i < j => KeyLess(ReleaseKey(order[i]), ReleaseKey(order[j]))

C6_Witness ==
    /\ BuildDagReturned
    /\ order = <<"B", "A", "C">>
    /\ Len(relationships) >= 1

(* C7: every stored result has exactly the requested number of rows; a
   count of 0 gives an empty result, and the run goes on to the remaining
   tables. *)
C7_ExactRowCount ==
    /\ \A t \in KeySet(results) : Frame(t).height = CountFor(t)
    /\ (pc = "gen" /\ idx > Len(order)) => SeqSet(order) = KeySet(results)
    /\ (pc = "error" /\ results # <<>>) =>
            (err.kind = "KeyError" /\ err.key \notin Registered)

C7_Witness ==
    /\ pc = "done"
    /\ Len(order) = 3
    /\ CountFor(order[1]) = 0 /\ Frame(order[1]).height = 0
    /\ CountFor(order[2]) >= 1 /\ Frame(order[2]).height >= 1
    /\ Has(results, order[3])

(* C8: every generated result has exactly the columns of the table's schema,
   in schema order, for every requested count, 0 included. *)
C8_SchemaColumns ==
    \A t \in KeySet(results) : Columns(Frame(t)) = Keys(SchemaOf(t))

(* C9: a child generated while the pool of one of its FK columns is empty or
   absent gets a synthesized value of the column's type in every row, has
   its requested number of rows, and the run goes on: it ends only by
   returning one result per table of the order. *)
DTypeOf(t, col) == Get(SchemaOf(t), col)
PoolFor(t, col) == GetOr(fk_pools, Get(FkSources(t), col), {})
EmptyPoolColumns(t) ==
    {col \in KeySet(SchemaOf(t)) : Has(FkSources(t), col) /\ PoolFor(t, col) = {}}
C9_FallbackKeepsRunning ==
    /\ \A t \in KeySet(results) : \A col \in EmptyPoolColumns(t) :
          /\ Frame(t).height = CountFor(t)
          /\ Frame(t).height >= 1 =>
                /\ col \in ColumnSet(Frame(t))
                /\ Unique(Frame(t), col) \subseteq GenerateValue(DTypeOf(t, col))
    /\ (pc = "error" /\ results # <<>>) =>
            (err.kind = "KeyError" /\ err.key \notin Registered)
    /\ (pc = "done" /\ caller = "generate_all") => KeySet(results) = SeqSet(order)

C9_Witness ==
    /\ pc = "done"
    /\ Len(order) = 3
    /\ Frame(order[1]).height = 0
    /\ "fk" \in EmptyPoolColumns(order[2])
    /\ Get(FkSources(order[2]), "fk")[1] = order[1]
    /\ Frame(order[2]).height >= 1
    /\ Frame(order[3]).height >= 1

(* C10: the outcome of the run carries, for every child FK column filled by
   the synthesizer fallback, the number of rows so filled. *)
C10_FallbackReported ==
    (pc = "done" /\ caller = "generate_all") =>
        \A k \in KeySet(fallbacks) : GetOr(Diagnostics, k, 0) = Get(fallbacks, k)

----------------------------------------------------------------------------
(* C11: in every run of generate_all the tables are generated one at a time
   in the order of build_dag, and at the step that generates a table, every
   relationship with that table as its child has its parent table already
   generated, with the pool of the parent column already published from the
   parent's complete DataFrame. *)
JustGenerated == KeySet(results') \ KeySet(results)
ParentsPublished(t) ==
    \A i \in 1..Len(relationships) :
        relationships[i][3] = t =>
            LET p == relationships[i][1]
                pcol == relationships[i][2]
            IN /\ Has(results, p)
               /\ pcol \in ColumnSet(Frame(p)) =>
                     /\ Has(fk_pools, <<p, pcol>>)
                     /\ Get(fk_pools, <<p, pcol>>) = Unique(Frame(p), pcol)
C11_Step ==
    \A t \in JustGenerated :
        /\ JustGenerated = {t}
        /\ Keys(results) = SubSeq(order, 1, idx - 1)
        /\ Keys(results') = SubSeq(order, 1, idx)
        /\ ParentsPublished(t)
C11_ChildAfterParentPublished == [][C11_Step]_vars

(* a child table is generated after its parent, whose pool is published *)
C11_Witness ==
    /\ caller = "generate_all"
    /\ \E i \in 1..Len(relationships) :
          LET p == relationships[i][1]
              c == relationships[i][3]
          IN /\ p # c
             /\ Has(results, p) /\ Has(results, c)
             /\ Has(fk_pools, <<p, relationships[i][2]>>)
             /\ Frame(c).height >= 1

(* C12: once a table t with at least one row is generated, for every
   relationship whose parent is (t, pcol) with pcol in t's schema, the pool
   under (t, pcol) is exactly the set of distinct values of column pcol of
   t's DataFrame. *)
C12_PoolIsDistinctValues ==
    \A t \in KeySet(results) :
        Frame(t).height >= 1 =>
            \A i \in 1..Len(relationships) :
                LET pcol == relationships[i][2]
                IN (relationships[i][1] = t /\ Has(SchemaOf(t), pcol)) =>
                      /\ Has(fk_pools, <<t, pcol>>)
                      /\ Get(fk_pools, <<t, pcol>>) = Unique(Frame(t), pcol)

(* a parent of two rows that hold the same value: the pool has it once *)
C12_Witness ==
    /\ pc = "done"
    /\ \E i \in 1..Len(relationships) :
          LET t == relationships[i][1]
              pcol == relationships[i][2]
          IN /\ Has(results, t) /\ Frame(t).height = 2
             /\ Has(fk_pools, <<t, pcol>>)
             /\ Cardinality(Get(fk_pools, <<t, pcol>>)) = 1

(* C13: within one run of generate_all a pool exists under (table, column)
   only once that table is generated, and every step of the run leaves each
   published pool under its key with its value. *)
PoolsOfGeneratedTables ==
    \A k \in 1..Len(fk_pools) : Has(results, fk_pools[k][1][1])
PoolsKept ==
    \A k \in 1..Len(fk_pools) :
        /\ Has(fk_pools', fk_pools[k][1])
        /\ Get(fk_pools', fk_pools[k][1]) = fk_pools[k][2]
C13_Step ==
    (caller = "generate_all" /\ caller' = "generate_all") =>
        /\ PoolsOfGeneratedTables
        /\ PoolsOfGeneratedTables'
        /\ PoolsKept
C13_PoolsWrittenOnce == [][C13_Step]_vars

(* a pool was published and a later table of the order has been generated *)
C13_Witness ==
    /\ caller = "generate_all"
    /\ \E k \in 1..Len(fk_pools) :
          \E u \in KeySet(results) :
              /\ Has(results, fk_pools[k][1][1])
              /\ IndexOf(order, fk_pools[k][1][1]) < IndexOf(order, u)
              /\ \E j \in 1..Len(fk_pools) : fk_pools[j][1][1] = u

(* C18: deriving the pools of a generated table again from its DataFrame
   gives the pools already published, and deriving them with nothing
   published before gives the same sets: each is the set of distinct values
   of the parent column, however many relationships name that column. *)
C18_PoolRederivation ==
    \A t \in KeySet(results) :
        LET df == Frame(t)
            again == PublishPools(t, df, fk_pools)
            alone == PublishPools(t, df, <<>>)
        IN /\ again = fk_pools
           /\ \A k \in 1..Len(alone) :
                 /\ Has(fk_pools, alone[k][1])
                 /\ Get(fk_pools, alone[k][1]) = alone[k][2]
                 /\ alone[k][2] = Unique(df, alone[k][1][2])

(* two relationships name the same parent column of a generated table *)
C18_Witness ==
    /\ pc = "done"
    /\ \E i, j \in 1..Len(relationships) :
          /\ i < j
          /\ relationships[i][1] = relationships[j][1]
          /\ relationships[i][2] = relationships[j][2]
          /\ Has(fk_pools, <<relationships[i][1], relationships[i][2]>>)
          /\ Has(results, relationships[i][3])
          /\ Has(results, relationships[j][3])

(* C14: a relationship that names a table that is not registered, or a
   column that is not in the named table's schema, makes generate_all fail
   before any table is generated: it never returns and results stays
   empty. *)
UnknownReference(i) ==
    LET p == relationships[i][1]
        c == relationships[i][3]
    IN \/ p \notin Registered
       \/ c \notin Registered
       \/ p \in Registered /\ ~Has(SchemaOf(p), relationships[i][2])
       \/ c \in Registered /\ ~Has(SchemaOf(c), relationships[i][4])
C14_UnknownReferenceRejected ==
    (caller = "generate_all" /\ \E i \in 1..Len(relationships) : UnknownReference(i)) =>
        /\ results = <<>>
        /\ pc # "done"

(* C15: with a relationship whose parent table is its child table declared,
   build_dag never returns an order: it raises, and the error names the
   table of every such relationship. *)
SelfReferencing == {relationships[i][1] : i \in {j \in 1..Len(relationships) :
                        relationships[j][1] = relationships[j][3]}}
C15_SelfLoopIsCycle ==
    (caller = "build_dag" /\ pc \in {"done", "error"} /\ SelfReferencing # {}) =>
        /\ BuildDagRaised
        /\ SelfReferencing \subseteq err.remaining

(* C16: in a run of generate_all, a generated table that has no entry in
   the counts mapping has 100 rows and a generated table that has an entry
   has exactly that many rows; a missing entry is never the cause of an
   error. *)
C16_DefaultRowCount ==
    caller = "generate_all" =>
        /\ \A t \in KeySet(results) :
              Frame(t).height = IF t \in DOMAIN counts
                                THEN counts[t]
                                ELSE DefaultCount
        /\ pc = "error" =>
              \/ err.kind = "ValueError"
              \/ err.kind = "KeyError" /\ err.key \notin Registered

(* one table left out of counts and one table with an entry, both generated *)
C16_Witness ==
    /\ pc = "done"
    /\ caller = "generate_all"
    /\ \E t, u \in KeySet(results) :
          /\ t \notin DOMAIN counts
          /\ Frame(t).height = DefaultCount
          /\ u \in DOMAIN counts
          /\ counts[u] >= 1
          /\ Frame(u).height = counts[u]

(* C17: in the multi-table UI flow, when generate_all ends with the
   cyclic-dependency ValueError, no table was generated and none is handed
   to sink.push, and the next step of the click shows the error. *)
CyclicFailure == pc = "error" /\ err.kind = "ValueError"
C17_Step ==
    CyclicFailure =>
        /\ results = <<>>
        /\ pushed = <<>> /\ pushed' = <<>>
        /\ ui \in {"running", "error"}
        /\ ui = "running" => ui' = "error"
C17_NoPushOnCycle == [][C17_Step]_vars

(* two uploaded tables that reference each other: the error is shown *)
C17_Witness ==
    /\ CyclicFailure
    /\ ui = "error"
    /\ pushed = <<>>
    /\ Len(tables) >= 2
    /\ \E i, j \in 1..Len(relationships) :
          /\ relationships[i][1] = relationships[j][3]
          /\ relationships[i][3] = relationships[j][1]
          /\ relationships[i][1] # relationships[i][3]

(* C19: generate_records(schema, count, ...) returns a DataFrame of exactly
   count rows, on the Faker path, on the LLM path and on the fallback from
   the LLM path to Faker. *)
C19_CountRows ==
    forge.phase = "returned" => Len(forge.df.rows) = forge.count

(* C20, as stated: when generate_records is called with use_llm=True and
   the LLM branch gives nothing usable (llm_engine is None, generate_data
   returns an empty list, or the DataFrame cannot be built from the
   records), the call returns a DataFrame that has every schema column. *)
LlmUnusable ==
    /\ forge.phase # "idle"
    /\ forge.use_llm
    /\ forge.llm \in {"none", "empty", "build_failed"}
C20_FallbackHasColumns ==
    LlmUnusable =>
        /\ forge.phase = "returned"
        /\ SeqSet(forge.df.columns) = KeySet(forge.schema)

(* C20, amended: in those three cases and with count >= 1, the call returns
   the Faker DataFrame: count rows, every schema column, each value from
   the column's provider; no exception leaves the call. *)
C20_FallbackToFaker ==
    (LlmUnusable /\ forge.count >= 1) =>
        /\ forge.phase = "returned"
        /\ SeqSet(forge.df.columns) = KeySet(forge.schema)
        /\ Len(forge.df.rows) = forge.count
        /\ \A i \in 1..Len(forge.df.rows) : forge.df.rows[i] \in FakerRowSet(forge.schema)

(* records whose DataFrame could not be built, and the Faker rows returned *)
C20_Witness ==
    /\ forge.phase = "returned"
    /\ forge.use_llm
    /\ forge.llm = "build_failed"
    /\ forge.count = 2
    /\ Len(forge.df.rows) = 2

(* C21: when generate_records returns from the LLM branch, record i of the
   LLM is row i of the DataFrame, the columns are exactly the schema's, a
   key of the record that is a schema column keeps its value, a schema
   column the record misses is null, and a key outside the schema is not in
   the row. *)
C21_RecordsBecomeRows ==
    (forge.phase = "returned" /\ forge.llm = "ok") =>
        LET records == forge.llm_engine.records
            df == forge.df
        IN /\ Len(df.rows) = Len(records)
           /\ SeqSet(df.columns) = KeySet(forge.schema)
           /\ Len(df.columns) = Len(forge.schema)
           /\ \A i \in 1..Len(records) :
                 /\ DOMAIN df.rows[i] = KeySet(forge.schema)
                 /\ \A c \in KeySet(forge.schema) :
                       df.rows[i][c] = IF c \in DOMAIN records[i]
                                       THEN records[i][c]
                                       ELSE "None"

(* a record that misses a schema column, then one with a key outside it *)
C21_Witness ==
    /\ forge.phase = "returned"
    /\ forge.llm = "ok"
    /\ forge.schema = ForgeSchemaA
    /\ Len(forge.df.rows) = 2
    /\ DOMAIN forge.llm_engine.records[1] = {"name"}
    /\ "zip" \in DOMAIN forge.llm_engine.records[2]
    /\ forge.df.rows[1]["city"] = "None"
    /\ forge.df.rows[2]["city"] = "Los Angeles"

(* C23: whenever build_dag returns, the order holds every registered table
   exactly once and no other name. *)
C23_OrderIsTheCatalog ==
    BuildDagReturned =>
        /\ SeqSet(order) = Registered
        /\ Len(order) = Cardinality(Registered)

(* C24: when every relationship names registered tables and build_dag
   raises, the tables the error names are the registered tables not in the
   order, which are the tables whose in-degree is not 0, which are the
   tables on a cycle or reachable from one. *)
AllRegistered ==
    \A i \in 1..Len(relationships) :
        relationships[i][1] \in Registered /\ relationships[i][3] \in Registered
Unplaced == Registered \ SeqSet(order)
NonzeroInDegree == {t \in Registered : Get(in_degree, t) # 0}
CycleOrBelow ==
    {t \in Registered : \E a \in Registered :
        OnCycle(a) /\ (t = a \/ t \in Descendants(Edges, a))}
C24_ErrorNamesCycleAndBelow ==
    (AllRegistered /\ BuildDagRaised /\ caller = "build_dag") =>
        /\ err.remaining = Unplaced
        /\ Unplaced = NonzeroInDegree
        /\ NonzeroInDegree = CycleOrBelow

(* a table below a cycle, not on it, is named *)
C24_Witness ==
    /\ AllRegistered
    /\ BuildDagRaised
    /\ caller = "build_dag"
    /\ \E t \in err.remaining : ~OnCycle(t)
    /\ \E t \in Registered : t \notin err.remaining

(* C25: when every relationship names registered tables, the graph has no
   cycle, and two relationships join the same parent to the same child,
   build_dag returns; each table is in the order exactly once and every
   child is after each of its parents. *)
RepeatedEdge ==
    \E i, j \in 1..Len(relationships) :
        /\ i < j
        /\ relationships[i][1] = relationships[j][1]
        /\ relationships[i][3] = relationships[j][3]
Acyclic == \A t \in Names : ~OnCycle(t)
C25_RepeatedEdgePlacedOnce ==
    (AllRegistered /\ Acyclic /\ RepeatedEdge
        /\ caller = "build_dag" /\ pc \in {"done", "error"}) =>
        /\ BuildDagReturned
        /\ SeqSet(order) = Registered
        /\ Len(order) = Cardinality(Registered)
        /\ \A i \in 1..Len(relationships) :
              IndexOf(order, relationships[i][1]) < IndexOf(order, relationships[i][3])

(* a child named twice by one parent and once by another *)
C25_Witness ==
    /\ BuildDagReturned
    /\ AllRegistered
    /\ RepeatedEdge
    /\ \E i, j \in 1..Len(relationships) :
          /\ relationships[i][3] = relationships[j][3]
          /\ relationships[i][1] # relationships[j][1]
    /\ Len(order) = 3

(* C26: when several relationships with different parents declare the same
   child column, the values of that column come from the pool of the parent
   declared last when that pool is not empty, and from the type-based
   generator when it is empty; the pool of a parent declared earlier is not
   a source. *)
Declaring(c, ccol) ==
    {i \in 1..Len(relationships) : relationships[i][3] = c /\ relationships[i][4] = ccol}
SeveralParents(c, ccol) ==
    \E i, j \in Declaring(c, ccol) : relationships[i][1] # relationships[j][1]
LastPool(c, ccol) ==
    LET last == Max(Declaring(c, ccol))
    IN GetOr(fk_pools, <<relationships[last][1], relationships[last][2]>>, {})
C26_LastDeclaredParentWins ==
    \A c \in KeySet(results) :
        \A ccol \in ColumnSet(Frame(c)) :
            SeveralParents(c, ccol) =>
                Unique(Frame(c), ccol) \subseteq
                    IF LastPool(c, ccol) # {}
                    THEN LastPool(c, ccol)
                    ELSE GenerateValue(DTypeOf(c, ccol))

(* the child holds a value of the last parent that the first parent lacks *)
C26_Witness ==
    /\ pc = "done"
    /\ \E c \in KeySet(results) :
          /\ Frame(c).height >= 1
          /\ SeveralParents(c, "fk")
          /\ LET first == relationships[CHOOSE i \in Declaring(c, "fk") :
                                \A j \in Declaring(c, "fk") : i <= j]
             IN /\ Has(fk_pools, <<first[1], first[2]>>)
                /\ LastPool(c, "fk") # {}
                /\ Unique(Frame(c), "fk") \cap Get(fk_pools, <<first[1], first[2]>>) = {}

(* C27: no step of a build_dag or generate_all call, returning or raising,
   changes the registered tables or the relationship list; a call starts
   with in-degrees computed from them and with no result and no pool; and
   a call on the catalog and relationships of the call before it resolves
   the order that call resolved, and raises the cycle error exactly if that
   call did. *)
DagResolved == pc \in {"gen", "done", "error"}
SameAsPrev ==
    /\ prev.valid
    /\ prev.tables = tables
    /\ prev.relationships = relationships
C27_Step ==
    /\ pc # "idle" => (tables' = tables /\ relationships' = relationships)
    /\ (pc = "idle" /\ pc' # "idle") =>
          /\ in_degree' = InitialInDegree
          /\ results' = <<>>
          /\ fk_pools' = <<>>
    /\ (DagResolved /\ SameAsPrev) =>
          /\ order = prev.order
          /\ (err.kind = "ValueError") <=> (prev.kind = "ValueError")
C27_CallsLeaveEngineAlone == [][C27_Step]_vars

(* generate_all has returned on the catalog build_dag was called on before *)
C27_Witness ==
    /\ pc = "done"
    /\ caller = "generate_all"
    /\ SameAsPrev
    /\ prev.caller = "build_dag"
    /\ Len(order) = 2
    /\ Len(relationships) >= 1
    /\ fk_pools # <<>>

(* C22: apply_rules returns as many rows as it was given; a row that passes
   every compiled rule is in the result unchanged at its position; a rule
   that does not translate or does not compile is logged with success False
   and the rows are those the compiled rules alone give; with no compiled
   rule the DataFrame is returned as it came. *)
Compliant(row) == RowPassesAll(row, CompiledRules(rules_call.rules))
C22_NoRowDropped ==
    rules_call.phase = "returned" =>
        LET df == rules_call.df
            out == rules_call.out
            rules == rules_call.rules
        IN /\ Len(out) = Len(df)
           /\ \A i \in 1..Len(df) : Compliant(df[i]) => out[i] = df[i]
           /\ \A k \in 1..Len(rules) :
                 rules[k].kind \in {"untranslatable", "uncompilable"} =>
                    \E e \in SeqSet(rules_call.results) :
                        e.rule = rules[k] /\ ~e.success /\ e.rows_regenerated = 0
           /\ CompiledRules(rules) = <<>> => out = df

(* a rule that does not compile next to one that does, a row kept and a row
   that failed and was replaced *)
C22_Witness ==
    /\ rules_call.phase = "returned"
    /\ \E k \in 1..Len(rules_call.rules) : rules_call.rules[k].kind = "uncompilable"
    /\ rules_call.compiled_rules # <<>>
    /\ Len(rules_call.df) = 2
    /\ \E i, j \in 1..2 :
          /\ Compliant(rules_call.df[i]) /\ rules_call.out[i] = rules_call.df[i]
          /\ ~Compliant(rules_call.df[j]) /\ rules_call.out[j] # rules_call.df[j]

(* C28: for each input row that fails a compiled rule at most 5 rows are
   generated; the first generated row that passes every compiled rule takes
   the row's place and none is generated after it; when all 5 fail the
   input row is kept; rows_regenerated of the compiled rules' log entries
   is the number of rows replaced, at most the number of input rows that
   failed. *)
Replaced(i) == rules_call.generated[i] # <<>> /\ rules_call.generated[i][Len(rules_call.generated[i])]
C28_BoundedRegeneration ==
    rules_call.phase = "returned" /\ rules_call.compiled_rules # <<>> =>
        LET df == rules_call.df
            out == rules_call.out
            gen == rules_call.generated
        IN /\ Len(gen) = Len(df)
           /\ \A i \in 1..Len(df) :
                 /\ Len(gen[i]) <= max_retries
                 /\ Compliant(df[i]) <=> gen[i] = <<>>
                 /\ \A a \in 1..(Len(gen[i]) - 1) : ~gen[i][a]
                 /\ Replaced(i) => (out[i] \in NewRows /\ Compliant(out[i]))
                 /\ ~Replaced(i) =>
                       /\ out[i] = df[i]
                       /\ ~Compliant(df[i]) => Len(gen[i]) = max_retries
           /\ \A e \in SeqSet(rules_call.results) :
                 e.success =>
                    /\ e.rows_regenerated = Cardinality({i \in 1..Len(df) : Replaced(i)})
                    /\ e.rows_regenerated <=
                          Cardinality({i \in 1..Len(df) : ~Compliant(df[i])})

(* one row replaced by the third row generated for it, one row kept after
   five rows that failed *)
C28_Witness ==
    /\ rules_call.phase = "returned"
    /\ Len(rules_call.df) = 2
    /\ Len(rules_call.generated) = 2
    /\ \E i, j \in 1..2 :
          /\ Len(rules_call.generated[i]) = 3 /\ Replaced(i)
          /\ Len(rules_call.generated[j]) = max_retries /\ ~Replaced(j)
          /\ rules_call.out[j] = rules_call.df[j]

(* C29: for a DataFrame of n rows and records_per_file r >= 1,
   _write_batches writes the smallest number of files that holds n rows at
   r rows a file (none when n = 0); the k-th file written is part_(k-1) and
   holds the rows (k-1)*r .. min(k*r, n) - 1 in order, so each row is
   written once, and each file holds at least one row and at most r. *)
Concat(fs) ==
    LET F[k \in 0..Len(fs)] == IF k = 0 THEN <<>> ELSE F[k - 1] \o fs[k][3]
    IN F[Len(fs)]
Least(n, r) == CHOOSE k \in 0..n : k * r >= n /\ \A j \in 0..n : j * r >= n => k <= j
C29_BatchesTileTheRows ==
    sink.phase = "returned" =>
        LET n == sink.n
            r == sink.records_per_file
            files == sink.files
        IN /\ Len(files) = Least(n, r)
           /\ \A k \in 1..Len(files) :
                 /\ files[k][1] = k - 1
                 /\ Len(files[k][3]) >= 1
                 /\ Len(files[k][3]) <= r
                 /\ files[k][3][1] = (k - 1) * r
                 /\ k < Len(files) => Len(files[k][3]) = r
           /\ Concat(files) = [j \in 1..n |-> j - 1]

(* a last file that is not full *)
C29_Witness ==
    /\ sink.phase = "returned"
    /\ sink.n = 7
    /\ sink.records_per_file = 3
    /\ Len(sink.files) = 3
    /\ sink.files[3] = <<2, "csv", <<6>> >>

(* C30: for start < end and each of the three frequencies the call returns
   periods that tile the window: the first starts at start, each ends after
   it starts and where the next one starts, and the last ends at end; for
   start >= end it returns the empty list. *)
Tiles(periods, start, end) ==
    /\ Len(periods) >= 1
    /\ periods[1][1] = start
    /\ periods[Len(periods)][2] = end
    /\ \A k \in 1..Len(periods) : Before(periods[k][1], periods[k][2])
    /\ \A k \in 1..(Len(periods) - 1) : periods[k][2] = periods[k + 1][1]
C30_PeriodsTileTheWindow ==
    tt.phase \in {"returned", "raised"} =>
        /\ tt.phase = "returned"
        /\ IF Before(tt.start, tt.end)
           THEN Tiles(tt.periods, tt.start, tt.end)
           ELSE tt.periods = <<>>

(* the same, for the calls that return *)
C30_ReturnedPeriodsTile ==
    tt.phase = "returned" =>
        IF Before(tt.start, tt.end)
        THEN Tiles(tt.periods, tt.start, tt.end)
        ELSE tt.periods = <<>>

====
